---- MODULE Spec2Model ----
(***************************************************************************)
(* Model of install-rspack (index.ts): one run of the command line tool    *)
(* from argument parsing to process exit, and repeated runs on the same    *)
(* package.json.                                                           *)
(*                                                                         *)
(* JavaScript strings that the code inspects character by character        *)
(* (versions, package names, override values) are sequences of one         *)
(* character strings, so that String.includes, the /^@rspack/ replacement  *)
(* and the template literals are computed, not assumed.  Names that the    *)
(* code only compares for equality (package managers, lockfile names) are  *)
(* plain strings.                                                          *)
(*                                                                         *)
(* The package.json file is modelled by its JSON value: JSON.parse of      *)
(* JSON.stringify(pkg, undefined, 2) + '\n' is pkg for the documents       *)
(* considered here (objects and arrays of strings, no numeric keys).       *)
(* The registry answer is a JSON string (npm info <pkg>@<tag> version      *)
(* --json for a single dist-tag), a failed command, or unparsable output.  *)
(***************************************************************************)
EXTENDS Integers, Sequences, FiniteSets, TLC

VARIABLES
  args,          \* parseArgs values: version, tag, pm, ci
  manifest,      \* the file at packageJsonPath: [exists, pkg]
  pc,            \* position of the top-level script
  pm,            \* package manager chosen by getPackageManager
  targetVersion, \* result of getTargetVersion
  queries,       \* registry queries made in this run: <<package, dist-tag>>
  stdout,        \* what the last registry query printed
  lockfiles,     \* lockfile markers seen by getPackageManager in this run
  detected,      \* TRUE once getPackageManager has called existsSync
  prompts,       \* prompts issued in this run, in order
  answers,       \* the answers given to them, in order
  writes,        \* writeFileSync calls in this run
  installs,      \* `<pm> install` invocations in this run
  log,           \* milestones of this run, in order: "query", "pm" (package
                 \* manager chosen), "prompt", "write", "install"
  exitCode,      \* process exit code, -1 while running
  error,         \* "none" or the error that ended the run
  before,        \* the manifest file as it was when this run started
  runs           \* number of runs started on this manifest

vars == <<args, manifest, pc, pm, targetVersion, queries, stdout, lockfiles,
          detected, prompts, answers, writes, installs, log, exitCode, error,
          before, runs>>

\* ------------------------------------------------------------------ bounds
MaxRuns == 2

\* ----------------------------------------------------------------- strings
Undefined == <<"undefined">>   \* not a string: its element is not a character
Empty == <<>>

Latest  == <<"l","a","t","e","s","t">>
Canary  == <<"c","a","n","a","r","y">>
Nightly == <<"n","i","g","h","t","l","y">>
Alpha   == <<"a","l","p","h","a">>
Beta    == <<"b","e","t","a">>
DashCanary == <<"-">> \o Canary
V1      == <<"1",".","3",".","1","3">>
VOld    == <<"1",".","0",".","0">>
VSnap   == V1 \o DashCanary \o <<"-","e","5">>
AtRspack == <<"@","r","s","p","a","c","k">>
AtRspackCanary == AtRspack \o DashCanary
RspackCore == AtRspack \o <<"/","c","o","r","e">>
RspackCli  == AtRspack \o <<"/","c","l","i">>
CreateRspack == <<"c","r","e","a","t","e","-","r","s","p","a","c","k">>
CreateRspackCanary == CreateRspack \o DashCanary
LeftPad == <<"l","e","f","t","-","p","a","d">>
React   == <<"r","e","a","c","t">>
RspackWildcard == AtRspack \o <<"/","*">>
NpmColon == <<"n","p","m",":">>
At == <<"@">>

StartsWith(s, p) == Len(s) >= Len(p) /\ SubSeq(s, 1, Len(p)) = p

\* String.prototype.includes
Includes(s, sub) ==
  \E i \in 1..(Len(s) - Len(sub) + 1) : SubSeq(s, i, i + Len(sub) - 1) = sub

Range(s) == {s[i] : i \in 1..Len(s)}

Count(s, x) == Cardinality({i \in 1..Len(s) : s[i] = x})

\* --------------------------------------------------------------- constants
SUPPORTED_PACKAGE_MANAGERS == <<"npm", "pnpm", "yarn">>

\* Object.entries order of LOCKFILE_TO_PACKAGE_MANAGER
LOCKFILES == <<"pnpm-lock.yaml", "yarn.lock", "package-lock.json", "npm-shrinkwrap.json">>

LOCKFILE_TO_PACKAGE_MANAGER ==
  [l \in Range(LOCKFILES) |->
     IF l = "pnpm-lock.yaml" THEN "pnpm" ELSE IF l = "yarn.lock" THEN "yarn" ELSE "npm"]

RSPACK_PACKAGES == <<RspackCore, RspackCli>>

DEPENDENCY_TYPES == <<"dependencies", "devDependencies", "optionalDependencies">>

\* ------------------------------------------------------- version resolution
toCanaryPackageName(name) ==
  IF name = CreateRspack THEN CreateRspackCanary
  ELSE IF StartsWith(name, AtRspack)
       THEN AtRspackCanary \o SubSeq(name, Len(AtRspack) + 1, Len(name))
       ELSE name

isCanaryTag(version) == version = Canary

isSnapshotTag(version) == isCanaryTag(version) \/ version = Nightly

isDistTag(raw) == raw \in {Latest, Canary, Nightly, Alpha}

\* getOverrides: the override value of every package of RSPACK_PACKAGES
getOverrides(version) ==
  LET isSnapshot == Includes(version, DashCanary) \/ isSnapshotTag(version)
      tv == IF isCanaryTag(version) THEN Latest ELSE version
  IN [name \in Range(RSPACK_PACKAGES) |->
        IF isSnapshot
        THEN NpmColon \o toCanaryPackageName(name)
               \o (IF Len(tv) > 0 THEN At \o tv ELSE Empty)
        ELSE tv]


\* ------------------------------------------------------------ package.json
\* A JSON object with string values is a function from keys to strings; an
\* optional member is [def, obj], def = FALSE standing for undefined.
EmptyObj == [k \in {} |-> Empty]

NoObj == [def |-> FALSE, obj |-> EmptyObj]

Obj(f) == [def |-> TRUE, obj |-> f]

\* {...a} for an optional object a
Spread(a) == IF a.def THEN a.obj ELSE EmptyObj

\* {...a, ...b}
Merge(a, b) ==
  [k \in (DOMAIN a) \cup (DOMAIN b) |-> IF k \in DOMAIN b THEN b[k] ELSE a[k]]

\* JavaScript truthiness of a string
Truthy(v) == Len(v) > 0

NoList == [def |-> FALSE, list |-> <<>>]

NoRules == [def |-> FALSE, allowAny |-> NoList]

NoPnpm == [def |-> FALSE, overrides |-> NoObj, peerDependencyRules |-> NoRules]

\* the npm branch: pkg.overrides = {...pkg.overrides, ...overrides}
npmOverrides(pkg, overrides) == Obj(Merge(Spread(pkg.overrides), overrides))

\* the npm branch: if (pkg[dependencyType]?.[dependencyName]) rewrite it
npmRewrite(section, overrides) ==
  IF section.def
  THEN Obj([k \in DOMAIN section.obj |->
              IF k \in Range(RSPACK_PACKAGES) /\ Truthy(section.obj[k])
              THEN overrides[k] ELSE section.obj[k]])
  ELSE section

\* the pnpm branch: allowAny ??= []; allowAny.push('@rspack/*')
pnpmAllowAny(rules) ==
  LET list == IF rules.def /\ rules.allowAny.def THEN rules.allowAny.list ELSE <<>>
  IN [def |-> TRUE,
      allowAny |-> [def |-> TRUE, list |-> Append(list, RspackWildcard)]]

\* the pnpm branch: pkg.pnpm ??= {}; pkg.pnpm.overrides = {...}; allowAny
pnpmSection(pnpm, overrides) ==
  LET cur == IF pnpm.def THEN pnpm ELSE NoPnpm
  IN [def |-> TRUE,
      overrides |-> Obj(Merge(Spread(cur.overrides), overrides)),
      peerDependencyRules |-> pnpmAllowAny(cur.peerDependencyRules)]

\* the yarn branch: pkg.resolutions = {...pkg.resolutions, ...overrides}
yarnResolutions(pkg, overrides) == Obj(Merge(Spread(pkg.resolutions), overrides))

\* the mutation of addOverridesToPackageJson, between read and write
applyOverrides(p, version, pkg) ==
  LET overrides == getOverrides(version) IN
  IF p = "npm"
  THEN [pkg EXCEPT !.overrides = npmOverrides(pkg, overrides),
                   !.dependencies = npmRewrite(pkg.dependencies, overrides),
                   !.devDependencies = npmRewrite(pkg.devDependencies, overrides),
                   !.optionalDependencies = npmRewrite(pkg.optionalDependencies, overrides)]
  ELSE IF p = "pnpm"
  THEN [pkg EXCEPT !.pnpm = pnpmSection(pkg.pnpm, overrides)]
  ELSE IF p = "yarn"
  THEN [pkg EXCEPT !.resolutions = yarnResolutions(pkg, overrides)]
  ELSE pkg

\* getPackageJson without the existsSync check
getPackageJson_NoCheck(m) == [found |-> TRUE, pkg |-> m.pkg]

\* getPackageJson: existsSync(packageJsonPath), else throw
getPackageJson(m) == [found |-> m.exists, pkg |-> m.pkg]

\* ------------------------------------------------------ the manifests tried
PkgBare ==
  [name |-> <<"a">>, dependencies |-> NoObj, devDependencies |-> NoObj,
   optionalDependencies |-> NoObj, peerDependencies |-> NoObj,
   overrides |-> NoObj, resolutions |-> NoObj, pnpm |-> NoPnpm]

PkgDev ==
  [PkgBare EXCEPT
     !.devDependencies = Obj((RspackCore :> VOld) @@ (LeftPad :> VOld)),
     !.peerDependencies = Obj(RspackCore :> VOld),
     !.overrides = Obj((LeftPad :> VOld) @@ (RspackCore :> VOld)),
     !.resolutions = Obj(LeftPad :> VOld),
     !.pnpm = [def |-> TRUE, overrides |-> Obj(LeftPad :> VOld),
               peerDependencyRules |->
                 [def |-> TRUE, allowAny |-> [def |-> TRUE, list |-> <<React>>]]]]

\* "@rspack/cli": "" is a dependency on any version
PkgAny ==
  [PkgBare EXCEPT
     !.dependencies = Obj((RspackCli :> Empty) @@ (React :> VOld)),
     !.optionalDependencies = Obj(RspackCore :> VOld),
     !.pnpm = [def |-> TRUE, overrides |-> NoObj, peerDependencyRules |-> NoRules]]

Packages == {PkgBare, PkgDev, PkgAny}

Manifests == {[exists |-> TRUE, pkg |-> p] : p \in Packages}
               \cup {[exists |-> FALSE, pkg |-> PkgBare]}

Versions == {Undefined, Latest, Canary, Nightly, Alpha, Beta, V1, VSnap, Empty}

Tags == {Undefined, Latest, Canary, Nightly, Beta}

PmArgs == {"", "npm", "pnpm", "yarn", "bun"}

Args == [version : Versions, tag : Tags, pm : PmArgs, ci : BOOLEAN]

\* what `npm info <pkg>@<tag> version --json` can do
RegistryOutcomes ==
  {[kind |-> "ok", version |-> v] : v \in {V1, VSnap}}
    \cup {[kind |-> k, version |-> Empty] : k \in {"failed", "unparsable"}}

NoOutcome == [kind |-> "none", version |-> Empty]


\* --------------------------------------------------------- package manager
\* pmCandidates: one entry per lockfile found, in Object.entries order
pmCandidates(files) ==
  LET found == SelectSeq(LOCKFILES, LAMBDA l : l \in files)
  IN [i \in 1..Len(found) |-> LOCKFILE_TO_PACKAGE_MANAGER[found[i]]]

\* args.pm && SUPPORTED_PACKAGE_MANAGERS.includes(args.pm)
validPm(p) == p # "" /\ p \in Range(SUPPORTED_PACKAGE_MANAGERS)

\* getPackageManager as a decision: does it look for lockfiles, does it
\* prompt and with which options, and which package manager it returns when
\* it does not prompt
getPackageManager(a, files) ==
  LET cands == pmCandidates(files) IN
  IF validPm(a.pm)
  THEN [detect |-> FALSE, prompt |-> FALSE, options |-> <<>>, pm |-> a.pm]
  ELSE IF a.ci
  THEN [detect |-> TRUE, prompt |-> FALSE, options |-> <<>>,
        pm |-> IF Len(cands) > 0 THEN cands[1] ELSE "npm"]
  ELSE IF Len(cands) = 1
  THEN [detect |-> TRUE, prompt |-> FALSE, options |-> <<>>, pm |-> cands[1]]
  ELSE IF Len(cands) > 1
  THEN [detect |-> TRUE, prompt |-> TRUE, options |-> cands, pm |-> "npm"]
  ELSE [detect |-> TRUE, prompt |-> TRUE,
        options |-> SUPPORTED_PACKAGE_MANAGERS, pm |-> "npm"]

\* ------------------------------------------------------------- the script
\* normalizeAnswer ending the process with code 1 on cancel
normalizeAnswer_Fail(ans) ==
  IF ans = "cancel" THEN [exit |-> TRUE, code |-> 1]
  ELSE [exit |-> FALSE, code |-> 0]

\* normalizeAnswer: a cancelled prompt ends the process with code 0
normalizeAnswer(ans) ==
  IF ans = "cancel" THEN [exit |-> TRUE, code |-> 0]
  ELSE [exit |-> FALSE, code |-> 0]

\* the order of the steps: the CI block resolves the version before it
\* picks the package manager, the interactive script after it
afterStart(ci) == IF ci THEN "version" ELSE "git"

afterPm(ci) == IF ci THEN "apply" ELSE "version"

afterVersion(ci) == IF ci THEN "pm" ELSE "apply"

\* the CI block without its process.exit(0)
afterApply_FallThrough(ci) == "confirmInstall"

\* after the write: process.exit(0) in the CI block, else the install prompt
afterApply(ci) == IF ci THEN "exit" ELSE "confirmInstall"

\* the registry query of getTargetVersion for a dist-tag
registryQuery(version) ==
  << IF isSnapshotTag(version) THEN toCanaryPackageName(RspackCore) ELSE RspackCore,
     IF isCanaryTag(version) THEN Latest ELSE version >>

\* getTargetVersion up to its await: the tag is returned as it is, a
\* dist-tag version is looked up, anything else is the version
resolution(a) ==
  LET version == IF a.version = Undefined THEN Latest ELSE a.version IN
  IF a.tag # Undefined /\ Truthy(a.tag) /\ isDistTag(a.tag)
  THEN [query |-> FALSE, version |-> a.tag]
  ELSE IF isDistTag(version)
  THEN [query |-> TRUE, version |-> version]
  ELSE [query |-> FALSE, version |-> version]

\* a registry lookup whose failure is swallowed
parseStdout_Swallow(out) == [ok |-> TRUE, version |-> out.version]

\* const { stdout } = await execa('npm', ...); JSON.parse(stdout): a failed
\* command and unparsable output both throw
parseStdout(out) == [ok |-> out.kind = "ok", version |-> out.version]

Halt(code, err) == pc' = "exit" /\ exitCode' = code /\ error' = err

Goto(l) == pc' = l /\ UNCHANGED <<exitCode, error>>

Ask(prompt, ans) ==
  /\ prompts' = Append(prompts, prompt)
  /\ answers' = Append(answers, ans)
  /\ log' = Append(log, "prompt")

Init ==
  /\ args \in Args
  /\ manifest \in Manifests
  /\ pc = "start"
  /\ pm = "npm"
  /\ targetVersion = Undefined
  /\ queries = <<>>
  /\ stdout = NoOutcome
  /\ lockfiles = {}
  /\ detected = FALSE
  /\ prompts = <<>>
  /\ answers = <<>>
  /\ writes = 0
  /\ installs = 0
  /\ log = <<>>
  /\ exitCode = -1
  /\ error = "none"
  /\ before = manifest
  /\ runs = 1

\* if (args.ci) { ... } else intro('Installing Rspack')
Start ==
  /\ pc = "start"
  /\ Goto(afterStart(args.ci))
  /\ UNCHANGED <<args, manifest, pm, targetVersion, queries, stdout, lockfiles,
                 detected, prompts, answers, writes, installs, log, before, runs>>

\* git status --porcelain; a failure of git is ignored
GitStatus ==
  /\ pc = "git"
  /\ \E status \in {"clean", "dirty", "failed"}, ans \in {"yes", "no", "cancel"} :
       IF status = "dirty"
       THEN /\ Ask("proceed", ans)
            /\ IF normalizeAnswer(ans).exit THEN Halt(normalizeAnswer(ans).code, "none")
               ELSE IF ans = "no" THEN Halt(1, "none")
               ELSE Goto("pm")
       ELSE /\ Goto("pm")
            /\ UNCHANGED <<prompts, answers, log>>
  /\ UNCHANGED <<args, manifest, pm, targetVersion, queries, stdout, lockfiles,
                 detected, writes, installs, before, runs>>

\* await getPackageManager(packageJsonPath).  files are the lockfiles in the
\* directory of package.json and ans the answer to the select prompt; when
\* the code does not read one of them it is fixed (files = {}, ans =
\* "cancel") so that the unread input does not multiply the transitions.
GetPackageManager ==
  /\ pc = "pm"
  /\ \E files \in SUBSET Range(LOCKFILES), ans \in Range(SUPPORTED_PACKAGE_MANAGERS) \cup {"cancel"} :
       LET d == getPackageManager(args, files) IN
       /\ lockfiles' = IF d.detect THEN files ELSE {}
       /\ detected' = d.detect
       /\ IF d.prompt
          THEN /\ ans \in Range(d.options) \cup {"cancel"}
               /\ prompts' = Append(prompts, "selectPm")
               /\ answers' = Append(answers, ans)
               /\ IF normalizeAnswer(ans).exit
                  THEN /\ Halt(normalizeAnswer(ans).code, "none")
                       /\ log' = Append(log, "prompt")
                       /\ UNCHANGED pm
                  ELSE /\ Goto(afterPm(args.ci))
                       /\ log' = log \o <<"prompt", "pm">>
                       /\ pm' = ans
          ELSE /\ (d.detect \/ files = {})
               /\ ans = "cancel"
               /\ pm' = d.pm
               /\ log' = Append(log, "pm")
               /\ Goto(afterPm(args.ci))
               /\ UNCHANGED <<prompts, answers>>
  /\ UNCHANGED <<args, manifest, targetVersion, queries, stdout, writes,
                 installs, before, runs>>

\* await getTargetVersion()
GetTargetVersion ==
  /\ pc = "version"
  /\ LET r == resolution(args) IN
     IF r.query
     THEN \E out \in RegistryOutcomes :
            /\ queries' = Append(queries, registryQuery(r.version))
            /\ stdout' = out
            /\ log' = Append(log, "query")
            /\ IF parseStdout(out).ok
               THEN targetVersion' = parseStdout(out).version /\ Goto(afterVersion(args.ci))
               ELSE Halt(1, "resolution") /\ UNCHANGED targetVersion
     ELSE /\ targetVersion' = r.version
          /\ Goto(afterVersion(args.ci))
          /\ UNCHANGED <<queries, stdout, log>>
  /\ UNCHANGED <<args, manifest, pm, lockfiles, detected, prompts, answers,
                 writes, installs, before, runs>>

\* await addOverridesToPackageJson(pm, targetVersion, packageJsonPath)
AddOverridesToPackageJson ==
  /\ pc = "apply"
  /\ LET r == getPackageJson(manifest) IN
     IF r.found
     THEN /\ manifest' = [exists |-> TRUE, pkg |-> applyOverrides(pm, targetVersion, r.pkg)]
          /\ writes' = writes + 1
          /\ log' = Append(log, "write")
          /\ IF afterApply(args.ci) = "exit" THEN Halt(0, "none")
             ELSE Goto(afterApply(args.ci))
     ELSE /\ Halt(1, "config")
          /\ UNCHANGED <<manifest, writes, log>>
  /\ UNCHANGED <<args, pm, targetVersion, queries, stdout, lockfiles, detected,
                 prompts, answers, installs, before, runs>>

\* confirm: Run <pm> install to install the updated dependencies?
ConfirmInstall ==
  /\ pc = "confirmInstall"
  /\ \E ans \in {"yes", "no", "cancel"} :
       /\ Ask("install", ans)
       /\ IF normalizeAnswer(ans).exit THEN Halt(normalizeAnswer(ans).code, "none")
          ELSE IF ans = "yes" THEN Goto("install")
          ELSE Halt(0, "none")
  /\ UNCHANGED <<args, manifest, pm, targetVersion, queries, stdout, lockfiles,
                 detected, writes, installs, before, runs>>

\* await execa(pm, ['install']); a failure ends the process with code 1
Install ==
  /\ pc = "install"
  /\ \E ok \in BOOLEAN :
       /\ installs' = installs + 1
       /\ log' = Append(log, "install")
       /\ IF ok THEN Halt(0, "none") ELSE Halt(1, "install")
  /\ UNCHANGED <<args, manifest, pm, targetVersion, queries, stdout, lockfiles,
                 detected, prompts, answers, writes, before, runs>>

\* The same command is run again on the file the last run wrote.  (A run
\* that ended without writing leaves what Init already covers.)
Rerun ==
  /\ pc = "exit"
  /\ writes > 0
  /\ runs < MaxRuns
  /\ runs' = runs + 1
  /\ before' = manifest
  /\ pc' = "start"
  /\ pm' = "npm"
  /\ targetVersion' = Undefined
  /\ queries' = <<>>
  /\ stdout' = NoOutcome
  /\ lockfiles' = {}
  /\ detected' = FALSE
  /\ prompts' = <<>>
  /\ answers' = <<>>
  /\ writes' = 0
  /\ installs' = 0
  /\ log' = <<>>
  /\ exitCode' = -1
  /\ error' = "none"
  /\ UNCHANGED <<args, manifest>>

Next ==
  \/ Start
  \/ GitStatus
  \/ GetPackageManager
  \/ GetTargetVersion
  \/ AddOverridesToPackageJson
  \/ ConfirmInstall
  \/ Install
  \/ Rerun

Spec == Init /\ [][Next]_vars

TypeOK ==
  /\ pc \in {"start", "git", "pm", "version", "apply", "confirmInstall", "install", "exit"}
  /\ pm \in Range(SUPPORTED_PACKAGE_MANAGERS)
  /\ writes \in 0..1
  /\ installs \in 0..1


\* ------------------------------------------------------------------ claims
Last(q) == q[Len(q)]

Suite == Range(RSPACK_PACKAGES)

\* the section of the manifest on disk that the chosen package manager reads
OverrideSection ==
  IF pm = "npm" THEN manifest.pkg.overrides.obj
  ELSE IF pm = "pnpm" THEN manifest.pkg.pnpm.overrides.obj
  ELSE manifest.pkg.resolutions.obj

Written == writes = 1 /\ manifest.exists

Alias(name, version) == NpmColon \o toCanaryPackageName(name) \o At \o version

\* the specifier of the run: a recognized tag argument, else the version
\* argument, else latest
Specifier ==
  IF args.tag # Undefined /\ isDistTag(args.tag) THEN args.tag
  ELSE IF args.version = Undefined THEN Latest ELSE args.version

\* C1: whenever the specifier is a recognized dist-tag, given as the tag
\* argument or as the version argument, the registry is queried exactly once
\* and every override value written embeds the version the registry returned,
\* never the tag name; for canary the query is <@rspack-canary/core, latest>.
C1_TagIsResolved ==
  (Written /\ isDistTag(Specifier)) =>
     /\ Len(queries) = 1
     /\ stdout.kind = "ok"
     /\ \A name \in Suite :
          OverrideSection[name] \in {stdout.version, Alias(name, stdout.version)}
     /\ (Specifier = Canary =>
           queries[1] = <<toCanaryPackageName(RspackCore), Latest>>)

\* C2: for every suite package the value written is the alias
\* npm:<snapshot name>@<resolved version> if and only if the original
\* specifier was canary or nightly, or the resolved version contains
\* "-canary"; otherwise it is the resolved version verbatim.
C2_AliasIffSnapshot ==
  Written =>
    \A name \in Suite :
      OverrideSection[name] =
        IF isSnapshotTag(Specifier) \/ Includes(targetVersion, DashCanary)
        THEN Alias(name, targetVersion)
        ELSE targetVersion

\* getTargetVersion has returned or thrown
VersionStepDone == targetVersion # Undefined \/ error = "resolution"

\* C3: with no tag argument, an unset version is latest; latest and beta are
\* looked up on @rspack/core at that tag; canary and nightly are looked up on
\* the snapshot package; every other string causes no query and is the
\* version as it is.
C3_Classification ==
  (args.tag = Undefined /\ VersionStepDone) =>
    LET version == IF args.version = Undefined THEN Latest ELSE args.version IN
    IF version \in {Latest, Beta}
    THEN queries = << <<RspackCore, version>> >>
    ELSE IF version \in {Canary, Nightly}
    THEN /\ Len(queries) = 1
         /\ queries[1][1] = toCanaryPackageName(RspackCore)
    ELSE queries = <<>> /\ targetVersion = version


\* C4: when no manifest file exists at the resolved path, the configuration
\* error is raised before any other work: no registry query, no lockfile
\* detection, no prompt and no file write has happened.
C4_ErrorBeforeAnyWork ==
  error = "config" =>
    /\ queries = <<>>
    /\ ~detected
    /\ prompts = <<>>
    /\ writes = 0

\* C4 as amended: when no manifest file exists, no run writes the file or
\* invokes install, and a run that reaches the mutation step ends there with
\* the configuration error and a non-zero exit code; every other end of
\* such a run is a failed registry query or an answer to a prompt.
C4_NoWriteWithoutManifest ==
  ~before.exists =>
    /\ writes = 0 /\ installs = 0 /\ manifest = before
    /\ pc \notin {"confirmInstall", "install"}
    /\ (error = "config" => pc = "exit" /\ exitCode = 1)
    /\ (pc = "exit" =>
          \/ error = "config" /\ targetVersion # Undefined /\ "pm" \in Range(log)
          \/ error = "resolution"
          \/ error = "none" /\ prompts # <<>> /\ Last(answers) \in {"cancel", "no"})

\* the configuration error after a registry query, lockfile detection and a
\* prompt have all taken place
C4_Witness ==
  /\ ~before.exists /\ error = "config" /\ pc = "exit"
  /\ Len(queries) = 1 /\ detected /\ prompts # <<>>

\* the keys of an optional object, none when it is undefined
Keys(o) == IF o.def THEN DOMAIN o.obj ELSE {}

SectionOf(pkg, t) ==
  IF t = "dependencies" THEN pkg.dependencies
  ELSE IF t = "devDependencies" THEN pkg.devDependencies
  ELSE pkg.optionalDependencies

\* C5: after the npm mutation, overrides holds the new value of every suite
\* package; a suite package that is a direct entry, with any previous value,
\* of dependencies, devDependencies or optionalDependencies has that entry
\* set to the same value; suite packages absent from a section are not added
\* to it; every other key of overrides and of the manifest is unchanged.
C5_NpmMutation ==
  (Written /\ pm = "npm") =>
    LET new == getOverrides(targetVersion)
        old == before.pkg
        cur == manifest.pkg
    IN /\ cur.overrides.def
       /\ \A name \in Suite : cur.overrides.obj[name] = new[name]
       /\ DOMAIN cur.overrides.obj = Keys(old.overrides) \cup Suite
       /\ \A k \in Keys(old.overrides) \ Suite :
            cur.overrides.obj[k] = old.overrides.obj[k]
       /\ \A t \in Range(DEPENDENCY_TYPES) :
            /\ Keys(SectionOf(cur, t)) = Keys(SectionOf(old, t))
            /\ SectionOf(cur, t).def = SectionOf(old, t).def
            /\ \A k \in Keys(SectionOf(old, t)) :
                 SectionOf(cur, t).obj[k] =
                   IF k \in Suite THEN new[k] ELSE SectionOf(old, t).obj[k]
       /\ cur.peerDependencies = old.peerDependencies
       /\ cur.resolutions = old.resolutions
       /\ cur.pnpm = old.pnpm
       /\ cur.name = old.name

\* C6: after any number of pnpm runs on the same manifest, "@rspack/*" is at
\* most once in pnpm.peerDependencyRules.allowAny, and pnpm.overrides holds
\* the latest override values with the unrelated keys preserved.
C6_PnpmIdempotent ==
  (Written /\ pm = "pnpm") =>
    LET new == getOverrides(targetVersion)
        old == before.pkg.pnpm
        cur == manifest.pkg.pnpm
    IN /\ cur.def /\ cur.overrides.def
       /\ Count(cur.peerDependencyRules.allowAny.list, RspackWildcard) <= 1
       /\ \A name \in Suite : cur.overrides.obj[name] = new[name]
       /\ \A k \in Keys(old.overrides) \ Suite :
            cur.overrides.obj[k] = old.overrides.obj[k]

\* the package managers whose lockfile marker was found
CandidateSet == {LOCKFILE_TO_PACKAGE_MANAGER[l] : l \in lockfiles}

\* C7: a valid pm argument is returned without looking for lockfiles or
\* prompting; otherwise, whenever exactly one package manager has a marker
\* (whatever the markers) it is selected with no prompt in both modes; a
\* prompt is issued only outside unattended mode and only for zero or several
\* package managers; unattended mode with no candidate yields npm.
C7_Selection ==
  /\ "selectPm" \in Range(prompts) =>
        ~args.ci /\ ~validPm(args.pm) /\ Cardinality(CandidateSet) # 1
  /\ "pm" \in Range(log) =>
        IF validPm(args.pm)
        THEN pm = args.pm /\ ~detected
        ELSE /\ detected
             /\ Cardinality(CandidateSet) = 1 => CandidateSet = {pm}
             /\ (args.ci /\ CandidateSet = {}) => pm = "npm"


\* the install prompt was answered yes
InstallConfirmed ==
  \E i \in 1..Len(prompts) : prompts[i] = "install" /\ answers[i] = "yes"

\* C8: install is invoked only in interactive mode and only after the user
\* confirmed the install prompt; in unattended mode no prompt is issued,
\* install is never invoked, the manifest is written at most once, and a run
\* that ends without an error has written it exactly once and exits 0.
C8_InstallOnlyOnConfirm ==
  /\ (installs > 0 \/ pc = "install") => (~args.ci /\ InstallConfirmed)
  /\ args.ci =>
       /\ prompts = <<>> /\ answers = <<>>
       /\ installs = 0
       /\ writes <= 1
       /\ pc \notin {"git", "confirmInstall", "install"}
       /\ (pc = "exit" /\ error = "none") => (writes = 1 /\ exitCode = 0)
       /\ (pc = "exit" /\ error # "none") => (writes = 0 /\ exitCode # 0)

\* an unattended run that found two kinds of lockfile and ended normally
C8_Witness ==
  /\ args.ci /\ pc = "exit" /\ error = "none"
  /\ Cardinality(CandidateSet) > 1
  /\ writes = 1 /\ exitCode = 0 /\ installs = 0 /\ prompts = <<>>

\* the run ended on the answer to its last prompt
EndedByAnswer ==
  /\ pc = "exit" /\ error = "none"
  /\ prompts # <<>> /\ Last(answers) \in {"cancel", "no"}

\* C9: when an interactive run ends because the user cancelled or declined a
\* prompt that precedes the mutation step (uncommitted-changes confirmation,
\* package-manager selection), the manifest has not been written; the exit
\* code is non-zero exactly when the user answered no to the
\* uncommitted-changes confirmation, and 0 for a cancelled prompt, the
\* install prompt included, which comes after the write.
C9_CancelBeforeWrite ==
  EndedByAnswer =>
    /\ Last(prompts) \in {"proceed", "selectPm"} =>
         (writes = 0 /\ manifest = before)
    /\ exitCode # 0 <=> (Last(prompts) = "proceed" /\ Last(answers) = "no")
    /\ Last(answers) = "cancel" => exitCode = 0
    /\ Last(prompts) = "install" => (writes = 1 /\ exitCode = 0)

\* the package-manager selection cancelled after the user chose to proceed
\* with uncommitted changes
C9_Witness ==
  /\ EndedByAnswer /\ prompts = <<"proceed", "selectPm">>
  /\ answers = <<"yes", "cancel">> /\ writes = 0 /\ exitCode = 0

\* the registry queries, writes and installs of the run, in order
Pipeline == SelectSeq(log, LAMBDA e : e \in {"query", "write", "install"})

\* C10: a run is one sequence registry query, manifest write, install with
\* no retries: at most one query; the manifest is written only after the
\* resolution succeeded, and a failed or unparsable query ends the run with
\* the manifest not written; install is invoked at most once and only after
\* the write; a failed install ends the run with a non-zero exit code and
\* the mutated manifest left in place.
C10_LinearPipeline ==
  /\ Pipeline \in {<<>>, <<"query">>, <<"write">>, <<"query", "write">>,
                   <<"write", "install">>, <<"query", "write", "install">>}
  /\ Len(queries) <= 1 /\ writes <= 1 /\ installs <= 1
  /\ writes = 1 =>
       /\ targetVersion # Undefined
       /\ queries # <<>> => (stdout.kind = "ok" /\ targetVersion = stdout.version)
       /\ manifest.pkg = applyOverrides(pm, targetVersion, before.pkg)
  /\ (queries # <<>> /\ stdout.kind # "ok") =>
       /\ pc = "exit" /\ error = "resolution" /\ exitCode # 0
       /\ writes = 0 /\ installs = 0 /\ manifest = before
  /\ installs = 1 => writes = 1
  /\ error = "install" =>
       /\ pc = "exit" /\ exitCode # 0 /\ installs = 1 /\ writes = 1
       /\ manifest.exists
       /\ \A name \in Suite : OverrideSection[name] = getOverrides(targetVersion)[name]

\* a failed install after a registry query and the write
C10_Witness ==
  /\ error = "install" /\ pc = "exit" /\ exitCode = 1
  /\ Pipeline = <<"query", "write", "install">>
  /\ manifest.pkg = applyOverrides(pm, stdout.version, before.pkg)

====
